---- MODULE Spec2Model ----
(* A model of discord-stats: the statistics accumulator                    *)
(* (MessageStatisticsData), the collector that walks the channels and      *)
(* threads of a guild (MessageStatisticsCollector) and the one-shot        *)
(* client that runs it under a timeout (fetch_statistics).                 *)
EXTENDS Integers, Sequences, FiniteSets, TLC

(***************************************************************************)
(* Bounds of the model.                                                    *)
(***************************************************************************)
\* how many messages the accumulator specification records
MaxCalls == 2
\* how many messages one history yields at most
MaxHistory == 2
\* how many ticks of the model's clock make a day
TicksPerDay == 2

(***************************************************************************)
(* The objects the collector reads: authors, channels, attachments.        *)
(***************************************************************************)
\* the value of an attribute an object does not have (hasattr is false)
Missing == <<"missing", 0>>

\* message.author objects: two members who share a display name, a member
\* with a name of their own, a bot, an author without display_name and an
\* author without the bot attribute
Authors ==
    { [id |-> 1, display_name |-> <<"nick", 1>>, bot |-> "False"],
      [id |-> 2, display_name |-> <<"nick", 1>>, bot |-> "False"],
      [id |-> 3, display_name |-> <<"nick", 2>>, bot |-> "False"],
      [id |-> 4, display_name |-> <<"nick", 3>>, bot |-> "True"],
      [id |-> 5, display_name |-> Missing,       bot |-> "False"],
      [id |-> 6, display_name |-> <<"nick", 1>>, bot |-> "missing"] }

\* Python's None; an optional value x that is set is <<x>>
None == <<>>

\* message.attachments, each attachment by its content_type, which is
\* <<type, subtype>> or None: no attachment, one image, two attachments that
\* are no images, two images with another file between them
AttachmentLists ==
    { <<>>,
      << <<"image", "png">> >>,
      << None, <<"text", "plain">> >>,
      << <<"image", "jpeg">>, <<"text", "plain">>, <<"image", "png">> >> }

(***************************************************************************)
(* collections.Counter and dict.                                           *)
(* A Counter is the sequence of its <<key, count>> items in insertion      *)
(* order; a dict of which only the lookups matter is a function.           *)
(***************************************************************************)
CounterKeys(c) == {c[i][1] : i \in 1..Len(c)}

\* c[k]: a missing key counts 0 and is not inserted by the read
CounterGet(c, k) ==
    IF k \in CounterKeys(c)
    THEN (c[CHOOSE i \in 1..Len(c) : c[i][1] = k])[2]
    ELSE 0

\* c[k] += n: the item keeps its place, a new key goes last
CounterAdd(c, k, n) ==
    IF k \in CounterKeys(c)
    THEN [i \in 1..Len(c) |-> IF c[i][1] = k THEN <<k, c[i][2] + n>> ELSE c[i]]
    ELSE Append(c, <<k, n>>)

RECURSIVE CounterSum(_)
\* sum(c.values())
CounterSum(c) == IF c = <<>> THEN 0 ELSE c[1][2] + CounterSum(Tail(c))

\* d[k] = v
DictSet(d, k, v) == [x \in (DOMAIN d) \cup {k} |-> IF x = k THEN v ELSE d[x]]

(***************************************************************************)
(* MessageStatisticsData                                                   *)
(***************************************************************************)
MessageStatisticsData ==
    [ total_messages          |-> 0,
      messages_per_author     |-> <<>>,
      messages_per_author_id  |-> <<>>,
      messages_per_channel    |-> <<>>,
      messages_per_channel_id |-> <<>>,
      messages_per_thread     |-> <<>>,
      messages_per_thread_id  |-> <<>>,
      total_thread_messages   |-> 0,
      pictures_per_author     |-> <<>>,
      total_pictures          |-> 0,
      days_in_period          |-> 0 ]

(***************************************************************************)
(* The guild: guild.channels in order, each text channel with its threads. *)
(* The first thread has the name of its parent channel.                    *)
(***************************************************************************)
GuildChannels ==
    << [id |-> 1, name |-> "general", type |-> "TextChannel", parent_id |-> 0],
       [id |-> 2, name |-> "voice", type |-> "VoiceChannel", parent_id |-> 0],
       [id |-> 3, name |-> "random", type |-> "TextChannel", parent_id |-> 0] >>

\* the threads of the guild
GuildThreads ==
    << [id |-> 11, name |-> "general", type |-> "Thread", parent_id |-> 1],
       [id |-> 12, name |-> "help", type |-> "Thread", parent_id |-> 1] >>

\* channel.threads: the threads of the guild whose parent is the channel
ChannelThreads(channel) == SelectSeq(GuildThreads, LAMBDA t : t.parent_id = channel.id)

\* _get_text_channels: the channels that are TextChannel instances, in order
GetTextChannels(channels) == SelectSeq(channels, LAMBDA c : c.type = "TextChannel")

SeqRange(s) == {s[i] : i \in 1..Len(s)}

\* every channel or thread whose history can be read
MessageChannels ==
    UNION { {c} \cup SeqRange(ChannelThreads(c)) : c \in SeqRange(GetTextChannels(GuildChannels)) }

\* discord.Message: its author, its attachments and the channel it is in
Messages == [author : Authors, attachments : AttachmentLists, channel : MessageChannels]

(***************************************************************************)
(* MessageStatisticsCollector._process_message / _process_attachments      *)
(***************************************************************************)
\* f"#{channel.name}"
ChannelName(channel) == <<"#", channel.name>>

\* isinstance(channel, Thread)
IsThread(channel) == channel.type = "Thread"

\* a.content_type and a.content_type.startswith("image/")
IsImage(content_type) == content_type # None /\ content_type[1] = "image"

\* the filter on the content type left out: every attachment counts
ImageAttachmentsUnfiltered(message) == message.attachments

\* the image attachments of a message
ImageAttachments(message) == SelectSeq(message.attachments, IsImage)

\* getattr(message.author, "display_name", f"User {message.author.id}")
AuthorName(message) ==
    IF message.author.display_name = Missing
    THEN <<"User", message.author.id>>
    ELSE message.author.display_name

\* only the missing attribute skips: the author's bot flag is not read
SkipAuthorWithoutAttrOnly(message) == message.author.bot = "missing"

\* not hasattr(message.author, "bot") or message.author.bot
SkipAuthor(message) == message.author.bot \in {"missing", "True"}

\* the author's pictures go up by one per message with pictures
AddPicturesOnePerMessage(st, author_name, count) ==
    [st EXCEPT !.total_pictures = @ + count,
               !.pictures_per_author = CounterAdd(@, author_name, 1)]

\* counts one attachment list as `count` pictures of author_name
AddPictures(st, author_name, count) ==
    [st EXCEPT !.total_pictures = @ + count,
               !.pictures_per_author = CounterAdd(@, author_name, count)]

ProcessAttachments(message, author_name, st) ==
    LET count == Len(ImageAttachments(message))
    IN  IF count > 0 THEN AddPictures(st, author_name, count) ELSE st

\* "Update message counters": the total, the author's count and id
CountAuthor(st, author_name, author_id) ==
    [st EXCEPT !.total_messages = @ + 1,
               !.messages_per_author = CounterAdd(@, author_name, 1),
               !.messages_per_author_id = DictSet(@, author_name, author_id)]

\* the channel's count is set to 1, not incremented
CountChannelAssign(st, channel_name, channel_id) ==
    [st EXCEPT !.messages_per_channel =
                   IF channel_name \in CounterKeys(@) THEN @ ELSE Append(@, <<channel_name, 1>>),
               !.messages_per_channel_id = DictSet(@, channel_name, channel_id)]

\* the channel's count and id
CountChannel(st, channel_name, channel_id) ==
    [st EXCEPT !.messages_per_channel = CounterAdd(@, channel_name, 1),
               !.messages_per_channel_id = DictSet(@, channel_name, channel_id)]

\* "Track thread messages separately"
CountThread(st, channel_name, channel_id) ==
    [st EXCEPT !.messages_per_thread = CounterAdd(@, channel_name, 1),
               !.messages_per_thread_id = DictSet(@, channel_name, channel_id),
               !.total_thread_messages = @ + 1]

ProcessMessage(message, st, channel_name, is_thread) ==
    IF SkipAuthor(message)
    THEN st
    ELSE LET author_name == AuthorName(message)
             counted == CountChannel(CountAuthor(st, author_name, message.author.id),
                                     channel_name, message.channel.id)
             threaded == IF is_thread
                         THEN CountThread(counted, channel_name, message.channel.id)
                         ELSE counted
         IN  ProcessAttachments(message, author_name, threaded)

(***************************************************************************)
(* State                                                                   *)
(***************************************************************************)
VARIABLES
    stats,      \* the MessageStatisticsData being filled
    msg,        \* the message handed to _process_message last
    calls,      \* how many messages were handed to _process_message
    window,     \* <<start_date, end_date>> of the collection
    me,         \* guild.me: the caller's own member, or None when not cached
    readable,   \* permissions_for(me).read_message_history of each channel and thread
    cpc,        \* where collect is
    ci,         \* index of the text channel collect is at
    ti,         \* index of the thread of that channel it is at, 0 in the channel itself
    yielded,    \* messages the history being read has yielded
    requests,   \* ids of the channels and threads whose history was requested, in order
    failed,     \* ids of the channels and threads whose history raised
    resolves,   \* whether get_guild(target_guild_id) finds the guild
    opc,        \* where on_ready is
    ready,      \* client.ready, the event
    data,       \* client.data
    fpc,        \* where fetch_statistics is
    timed_out,  \* whether wait_for raised TimeoutError
    result,     \* what fetch_statistics returns
    now,        \* datetime.now(), in ticks
    stats_config, \* config.bot.stats_config: <<start_date, end_date>>, or None without a config
    args,       \* <<start_date, end_date>> as the command running was given them
    kpc,        \* where the command is: the stats command of the CLI or of the bot
    invocations, \* how many stats commands the bot was sent
    exit_code,  \* the status the CLI exited with, None while it runs
    output,     \* what the command has answered last
    limit,      \* the limit the rankings were asked with, None before
    top         \* the four rankings as they were returned

accumulator == <<stats, msg, calls>>
environment == <<window, me, readable>>
walker == <<cpc, ci, ti, yielded, requests, failed>>
client == <<resolves, opc, ready, data, fpc, timed_out, result>>
caller == <<now, stats_config, args, kpc, invocations, exit_code, output>>
query == <<limit, top>>
vars == <<accumulator, environment, walker, client, caller, query>>

\* no client: collect is called directly, or nothing is collected
NoClient ==
    /\ resolves = TRUE
    /\ opc = "none"
    /\ ready = FALSE
    /\ data = None
    /\ fpc = "none"
    /\ timed_out = FALSE
    /\ result = None

\* the rankings were not asked for
NoQuery ==
    /\ limit = None
    /\ top = None

\* no command: the client or the collector is used directly
NoCaller ==
    /\ now = 0
    /\ stats_config = None
    /\ args = <<None, None>>
    /\ kpc = "none"
    /\ invocations = 0
    /\ exit_code = None
    /\ output = "nothing"
    /\ NoQuery

NoChannel == [id |-> 0, name |-> "", type |-> "", parent_id |-> 0]
NoMessage ==
    [author |-> [id |-> 0, display_name |-> Missing, bot |-> "missing"],
     attachments |-> <<>>, channel |-> NoChannel]

\* the ids of the channels and threads that carry messages
ChannelIds == {c.id : c \in MessageChannels}

\* the caller's own member
Me == <<[id |-> 9]>>

\* channel 1 and thread 12 may be read, thread 11 and channel 3 may not
SomeReadable == [id \in ChannelIds |-> id \in {1, 12}]

(***************************************************************************)
(* The accumulator on its own: any sequence of messages is recorded, each  *)
(* as the loop of _process_channel records it.                             *)
(***************************************************************************)
Init ==
    /\ stats = MessageStatisticsData
    /\ msg = NoMessage
    /\ calls = 0
    /\ window = <<0, 0>>
    /\ me = Me
    /\ readable = [id \in ChannelIds |-> TRUE]
    /\ cpc = "idle"
    /\ ci = 0
    /\ ti = 0
    /\ yielded = 0
    /\ requests = <<>>
    /\ failed = {}
    /\ NoClient
    /\ NoCaller

RecordMessage(message) ==
    /\ calls < MaxCalls
    /\ stats' = ProcessMessage(message, stats, ChannelName(message.channel),
                               IsThread(message.channel))
    /\ msg' = message
    /\ calls' = calls + 1
    /\ UNCHANGED <<client, environment, caller, query, walker>>

Next == \E message \in Messages : RecordMessage(message)

Spec == Init /\ [][Next]_vars

(***************************************************************************)
(* MessageStatisticsCollector.collect: the walk over the text channels of  *)
(* the guild and their threads.                                            *)
(***************************************************************************)
\* the window both callers collect over by default: the last four weeks
DefaultWindow == <<0, 28 * TicksPerDay>>

\* (end_date - start_date).days, without the "or 1"
DaysInPeriodUnfloored(start_date, end_date) == (end_date - start_date) \div TicksPerDay

\* (end_date - start_date).days or 1
DaysInPeriod(start_date, end_date) ==
    LET days == (end_date - start_date) \div TicksPerDay
    IN  IF days = 0 THEN 1 ELSE days

\* the messages there are to read, the same in every channel and thread:
\* author 1 posts an image, the bot posts text
Posted(message) ==
    <<message.author.id, Len(message.attachments)>> \in {<<1, 1>>, <<4, 0>>}

\* the messages channel.history(...) may yield
History(channel) == {m \in Messages : m.channel = channel /\ Posted(m)}

TextChannels == GetTextChannels(GuildChannels)

\* the channel or thread collect is at
Place == IF ti = 0 THEN TextChannels[ci] ELSE ChannelThreads(TextChannels[ci])[ti]

\* <<cpc, ci, ti>> once channel c and all its threads are dealt with
AfterChannel(c) ==
    IF c < Len(TextChannels) THEN <<"channel", c + 1, 0>> ELSE <<"finish", c, 0>>

\* the threads of the channel are not gone through
AfterPlaceWithoutThreads(c, t) == AfterChannel(c)

\* <<cpc, ci, ti>> once the channel itself (t = 0) or its thread t is dealt with
AfterPlace(c, t) ==
    IF t < Len(ChannelThreads(TextChannels[c])) THEN <<"thread", c, t + 1>> ELSE AfterChannel(c)

\* collect moves on to position pos
GoTo(pos) == cpc' = pos[1] /\ ci' = pos[2] /\ ti' = pos[3]

WalkInit ==
    /\ stats = MessageStatisticsData
    /\ msg = NoMessage
    /\ calls = 0
    /\ window = DefaultWindow
    /\ me \in {None, Me}
    /\ readable \in [ChannelIds -> BOOLEAN]
    /\ cpc = "idle"
    /\ ci = 0
    /\ ti = 0
    /\ yielded = 0
    /\ requests = <<>>
    /\ failed = {}
    /\ NoClient
    /\ NoCaller

\* collect(guild, start_date, end_date), up to its loop over the channels
Collect(start_date, end_date) ==
    /\ cpc = "idle"
    /\ stats' = [MessageStatisticsData EXCEPT
                    !.days_in_period = DaysInPeriod(start_date, end_date)]
    /\ GoTo(AfterChannel(0))
    /\ UNCHANGED <<msg, calls, me, readable, yielded, requests, failed>>

\* collect over the window the caller was made with
CollectBegin == Collect(window[1], window[2]) /\ UNCHANGED window

\* collect called on a guild, as the stats command of the bot calls it
CollectStart == CollectBegin /\ UNCHANGED <<client, caller, query>>

\* channel.permissions_for(channel.guild.me) raises on a member that is None:
\* nothing in collect catches it
PermissionsRaise ==
    /\ cpc = "channel"
    /\ me = None
    /\ cpc' = "raised"
    /\ UNCHANGED <<client, accumulator, environment, caller, query, ci, ti, yielded, requests, failed>>

\* the permission is not checked: the history is requested all the same
SkipChannelReadsAnyway ==
    /\ cpc = "channel"
    /\ me # None
    /\ ~readable[Place.id]
    /\ requests' = Append(requests, Place.id)
    /\ cpc' = "history"
    /\ UNCHANGED <<client, accumulator, environment, caller, query, ci, ti, yielded, failed>>

\* _process_channel_with_threads returns at a channel without the permission
SkipChannel ==
    /\ cpc = "channel"
    /\ me # None
    /\ ~readable[Place.id]
    /\ GoTo(AfterChannel(ci))
    /\ UNCHANGED <<client, accumulator, environment, caller, query, yielded, requests, failed>>

\* _process_channel(channel): the history of the channel is requested
OpenChannel ==
    /\ cpc = "channel"
    /\ me # None
    /\ readable[Place.id]
    /\ requests' = Append(requests, Place.id)
    /\ cpc' = "history"
    /\ UNCHANGED <<client, accumulator, environment, caller, query, ci, ti, yielded, failed>>

\* a thread without the permission is passed over
SkipThread ==
    /\ cpc = "thread"
    /\ ~readable[Place.id]
    /\ GoTo(AfterPlace(ci, ti))
    /\ UNCHANGED <<client, accumulator, environment, caller, query, yielded, requests, failed>>

\* _process_channel(thread): the history of the thread is requested
OpenThread ==
    /\ cpc = "thread"
    /\ readable[Place.id]
    /\ requests' = Append(requests, Place.id)
    /\ cpc' = "history"
    /\ UNCHANGED <<client, accumulator, environment, caller, query, ci, ti, yielded, failed>>

\* the history yields a message, which _process_message records
HistoryYield(message) ==
    /\ cpc = "history"
    /\ yielded < MaxHistory
    /\ message \in History(Place)
    /\ stats' = ProcessMessage(message, stats, ChannelName(Place), IsThread(Place))
    /\ msg' = message
    /\ calls' = calls + 1
    /\ yielded' = yielded + 1
    /\ UNCHANGED <<client, environment, caller, query, cpc, ci, ti, requests, failed>>

\* the history is exhausted
HistoryEnd ==
    /\ cpc = "history"
    /\ GoTo(AfterPlace(ci, ti))
    /\ yielded' = 0
    /\ UNCHANGED <<client, accumulator, environment, caller, query, requests, failed>>

\* no try around the history loop: the error leaves collect
HistoryErrorPropagates ==
    /\ cpc = "history"
    /\ failed' = failed \cup {Place.id}
    /\ cpc' = "raised"
    /\ yielded' = 0
    /\ UNCHANGED <<client, accumulator, environment, caller, query, ci, ti, requests>>

\* the history raises: _process_channel logs the error and returns
HistoryError ==
    /\ cpc = "history"
    /\ failed' = failed \cup {Place.id}
    /\ GoTo(AfterPlace(ci, ti))
    /\ yielded' = 0
    /\ UNCHANGED <<client, accumulator, environment, caller, query, requests>>

\* return stats
CollectReturn ==
    /\ cpc = "finish"
    /\ cpc' = "returned"
    /\ UNCHANGED <<client, accumulator, environment, caller, query, ci, ti, yielded, requests, failed>>

Walk ==
    \/ PermissionsRaise
    \/ SkipChannel
    \/ OpenChannel
    \/ SkipThread
    \/ OpenThread
    \/ \E message \in Messages : HistoryYield(message)
    \/ HistoryEnd
    \/ HistoryError
    \/ CollectReturn

WalkNext == CollectStart \/ Walk

WalkSpec == WalkInit /\ [][WalkNext]_vars

(***************************************************************************)
(* fetch_statistics and StatisticsClient.on_ready: the client is started   *)
(* in a task of its own, on_ready collects once it is connected, and       *)
(* fetch_statistics waits for client.ready under the timeout.              *)
(***************************************************************************)
FetchInit ==
    /\ stats = MessageStatisticsData
    /\ msg = NoMessage
    /\ calls = 0
    /\ window = DefaultWindow
    /\ me \in {None, Me}
    /\ readable \in [ChannelIds -> BOOLEAN]
    /\ cpc = "idle"
    /\ ci = 0
    /\ ti = 0
    /\ yielded = 0
    /\ requests = <<>>
    /\ failed = {}
    /\ resolves \in BOOLEAN
    /\ opc = "pending"
    /\ ready = FALSE
    /\ data = None
    /\ fpc = "waiting"
    /\ timed_out = FALSE
    /\ result = None
    /\ NoCaller

\* on_ready: the guild is not found, ready is set and on_ready returns
OnReadyNotFound ==
    /\ opc = "pending"
    /\ fpc # "returned"
    /\ ~resolves
    /\ ready' = TRUE
    /\ opc' = "done"
    /\ UNCHANGED <<accumulator, environment, caller, query, walker, resolves, data, fpc, timed_out, result>>

\* the collection is handed out and ready is set before collect has run
OnReadyCollectNotAwaited ==
    /\ opc = "pending"
    /\ fpc # "returned"
    /\ resolves
    /\ CollectBegin
    /\ opc' = "collecting"
    /\ data' = <<stats'>>
    /\ ready' = TRUE
    /\ UNCHANGED <<resolves, fpc, timed_out, result, caller, query>>

\* on_ready: the guild is found and collect is awaited
OnReadyCollect ==
    /\ opc = "pending"
    /\ fpc # "returned"
    /\ resolves
    /\ CollectBegin
    /\ opc' = "collecting"
    /\ UNCHANGED <<resolves, ready, data, fpc, timed_out, result, caller, query>>

\* on_ready: collect has returned, its result becomes client.data and ready is set
OnReadyCollected ==
    /\ opc = "collecting"
    /\ cpc = "returned"
    /\ data' = <<stats>>
    /\ ready' = TRUE
    /\ opc' = "done"
    /\ UNCHANGED <<accumulator, environment, caller, query, walker, resolves, fpc, timed_out, result>>

\* no finally clause: the error is logged and ready is not set
OnReadyExceptWithoutFinally ==
    /\ opc = "collecting"
    /\ cpc = "raised"
    /\ opc' = "done"
    /\ UNCHANGED <<accumulator, environment, caller, query, walker, resolves, ready, data,
                   fpc, timed_out, result>>

\* on_ready: collect has raised, the error is logged and ready is set
OnReadyExcept ==
    /\ opc = "collecting"
    /\ cpc = "raised"
    /\ ready' = TRUE
    /\ opc' = "done"
    /\ UNCHANGED <<accumulator, environment, caller, query, walker, resolves, data, fpc, timed_out, result>>

\* fetch_statistics: the wait for ready is over, client.data is what it returns
FetchReady ==
    /\ fpc = "waiting"
    /\ ready
    /\ result' = data
    /\ fpc' = "finally"
    /\ UNCHANGED <<accumulator, environment, caller, query, walker, resolves, opc, ready, data, timed_out>>

\* fetch_statistics: wait_for raises TimeoutError, None is what it returns
FetchTimeout ==
    /\ fpc = "waiting"
    /\ timed_out' = TRUE
    /\ result' = None
    /\ fpc' = "finally"
    /\ UNCHANGED <<accumulator, environment, caller, query, walker, resolves, opc, ready, data>>

\* fetch_statistics: the finally clause closes the client and cancels its
\* task; a collection still running is cancelled with it, and the finally
\* clause of on_ready sets ready
FetchFinally ==
    /\ fpc = "finally"
    /\ fpc' = "returned"
    /\ opc' = IF opc \in {"pending", "collecting"} THEN "cancelled" ELSE opc
    /\ cpc' = IF cpc \in {"channel", "thread", "history", "finish"} THEN "cancelled" ELSE cpc
    /\ ready' = (ready \/ opc = "collecting")
    /\ UNCHANGED <<accumulator, environment, caller, query, ci, ti, yielded, requests, failed,
                   resolves, data, timed_out, result>>

FetchNext ==
    \/ OnReadyNotFound
    \/ OnReadyCollect
    \/ Walk
    \/ OnReadyCollected
    \/ OnReadyExcept
    \/ FetchReady
    \/ FetchTimeout
    \/ FetchFinally

FetchSpec == FetchInit /\ [][FetchNext]_vars

\* the event loop runs a coroutine that can go on: collect gets through the
\* channels, every history ending or failing, and on_ready goes on once
\* collect has returned or raised
FetchFairInit == FetchInit /\ readable = SomeReadable

FetchFairSpec ==
    /\ FetchFairInit
    /\ [][FetchNext]_vars
    /\ WF_vars(Walk)
    /\ WF_vars(OnReadyCollected)
    /\ WF_vars(OnReadyExcept)

(***************************************************************************)
(* Dates: a datetime is a number of ticks, a date string is <<day, tick of *)
(* the day>>.                                                              *)
(***************************************************************************)
\* timedelta(weeks=4)
FourWeeks == 28 * TicksPerDay

\* the date strings a command may be given; the last one names a time the
\* day does not have
DateStrings == {<<25, 0>>, <<27, 1>>, <<28, 0>>, <<28, TicksPerDay>>}

\* whether date_parser.parse(date_str) returns; it raises ValueError otherwise
Parses(date_str) == date_str[2] < TicksPerDay

\* date_parser.parse(date_str)
Parse(date_str) == date_str[1] * TicksPerDay + date_str[2]

\* an optional date argument: None, or <<date_str>>
DateArgs == {None} \cup {<<s>> : s \in DateStrings}

(***************************************************************************)
(* The stats command of the CLI: it settles the window, runs               *)
(* fetch_statistics and prints the report or exits with status 1.          *)
(***************************************************************************)
\* the range is taken as it comes
InvalidRangeNever(start, end) == FALSE

\* "Validate date range": end < start
InvalidRange(start, end) == end < start

\* parse_date(date_str, default_date, config_date), when date_str parses
ParseDate(date_str, default_date, config_date) ==
    IF date_str # None
    THEN Parse(date_str[1])
    ELSE IF config_date # None THEN config_date[1] ELSE default_date

\* getattr(config_data.bot.stats_config, "start_date" / "end_date", None)
ConfigDate(i) == IF stats_config = None THEN None ELSE <<stats_config[i]>>

CliInit ==
    /\ stats = MessageStatisticsData
    /\ msg = NoMessage
    /\ calls = 0
    /\ window = DefaultWindow
    /\ me \in {None, Me}
    /\ readable = SomeReadable
    /\ cpc = "idle"
    /\ ci = 0
    /\ ti = 0
    /\ yielded = 0
    /\ requests = <<>>
    /\ failed = {}
    /\ resolves \in BOOLEAN
    /\ opc = "none"
    /\ ready = FALSE
    /\ data = None
    /\ fpc = "none"
    /\ timed_out = FALSE
    /\ result = None
    /\ now = FourWeeks + 1
    /\ stats_config \in {None, <<Parse(<<28, 0>>), Parse(<<25, 0>>)>>}
    /\ args = <<None, None>>
    /\ kpc = "cli"
    /\ invocations = 0
    /\ exit_code = None
    /\ output = "nothing"
    /\ NoQuery

\* stats, up to the call of fetch_statistics: a date that does not parse and
\* a window that ends before it starts exit with status 1; otherwise
\* fetch_statistics starts the client and waits
CliStats(start_date, end_date) ==
    /\ kpc = "cli"
    /\ args' = <<start_date, end_date>>
    /\ LET unparsed == \/ (start_date # None /\ ~Parses(start_date[1]))
                       \/ (end_date # None /\ ~Parses(end_date[1]))
           start == ParseDate(start_date, now - FourWeeks, ConfigDate(1))
           end == ParseDate(end_date, now, ConfigDate(2))
       IN  IF unparsed \/ InvalidRange(start, end)
           THEN /\ exit_code' = <<1>>
                /\ kpc' = "exited"
                /\ UNCHANGED <<window, opc, fpc>>
           ELSE /\ window' = <<start, end>>
                /\ opc' = "pending"
                /\ fpc' = "waiting"
                /\ kpc' = "fetch"
                /\ UNCHANGED exit_code
    /\ UNCHANGED <<accumulator, me, readable, walker, resolves, ready, data,
                   timed_out, result, now, stats_config, invocations, output, query>>

\* the report is printed whatever fetch_statistics returned
CliReportAnyway ==
    /\ kpc = "fetch"
    /\ fpc = "returned"
    /\ exit_code' = <<0>>
    /\ output' = "report"
    /\ kpc' = "exited"
    /\ UNCHANGED <<accumulator, environment, walker, client, query, now, stats_config,
                   args, invocations>>

\* stats, after fetch_statistics: no data exits with status 1, data is
\* formatted and printed
CliReport ==
    /\ kpc = "fetch"
    /\ fpc = "returned"
    /\ IF result = None
       THEN exit_code' = <<1>> /\ output' = output
       ELSE exit_code' = <<0>> /\ output' = "report"
    /\ kpc' = "exited"
    /\ UNCHANGED <<accumulator, environment, walker, client, query, now, stats_config,
                   args, invocations>>

CliNext ==
    \/ \E start_date, end_date \in DateArgs : CliStats(start_date, end_date)
    \/ FetchNext
    \/ CliReport

CliSpec == CliInit /\ [][CliNext]_vars

(***************************************************************************)
(* The stats command of the bot. The bot keeps one stats_config, made when *)
(* its configuration was, and every invocation reads and writes it.        *)
(***************************************************************************)
\* how many stats commands the bot is sent
MaxInvocations == 2
\* how many ticks the clock advances while the bot runs
MaxTicks == 1

BotInit ==
    /\ stats = MessageStatisticsData
    /\ msg = NoMessage
    /\ calls = 0
    /\ window = DefaultWindow
    /\ me \in {None, Me}
    /\ readable = SomeReadable
    /\ cpc = "idle"
    /\ ci = 0
    /\ ti = 0
    /\ yielded = 0
    /\ requests = <<>>
    /\ failed = {}
    /\ NoClient
    /\ now = FourWeeks
    /\ stats_config = <<now - FourWeeks, now>>
    /\ args = <<None, None>>
    /\ kpc = "bot"
    /\ invocations = 0
    /\ exit_code = None
    /\ output = "nothing"
    /\ NoQuery

\* time passes between two commands
Tick ==
    /\ kpc = "bot"
    /\ now < FourWeeks + MaxTicks
    /\ now' = now + 1
    /\ UNCHANGED <<accumulator, environment, walker, client, query, stats_config, args,
                   kpc, invocations, exit_code, output>>

\* stats_command, up to the call of collect: the dates given are parsed
\* into stats_config one after the other, and the range it holds then is
\* validated
StatsCommand(start_date, end_date) ==
    /\ kpc = "bot"
    /\ invocations < MaxInvocations
    /\ invocations' = invocations + 1
    /\ args' = <<start_date, end_date>>
    /\ LET with_start == IF start_date # None
                         THEN <<Parse(start_date[1]), stats_config[2]>>
                         ELSE stats_config
           with_end == IF end_date # None
                       THEN <<with_start[1], Parse(end_date[1])>>
                       ELSE with_start
       IN  IF start_date # None /\ ~Parses(start_date[1])
           THEN /\ output' = "invalid start date"
                /\ UNCHANGED <<stats, cpc, ci, ti, window, stats_config, kpc>>
           ELSE IF end_date # None /\ ~Parses(end_date[1])
           THEN /\ output' = "invalid end date"
                /\ stats_config' = with_start
                /\ UNCHANGED <<stats, cpc, ci, ti, window, kpc>>
           ELSE IF InvalidRange(with_end[1], with_end[2])
           THEN /\ output' = "end before start"
                /\ stats_config' = with_end
                /\ UNCHANGED <<stats, cpc, ci, ti, window, kpc>>
           ELSE /\ output' = "typing"
                /\ stats_config' = with_end
                /\ window' = with_end
                /\ Collect(with_end[1], with_end[2])
                /\ kpc' = "collecting"
    /\ UNCHANGED <<msg, calls, me, readable, yielded, requests, failed, client,
                   now, exit_code, query>>

\* what is left of a call of collect once the command is over
CollectOver ==
    /\ stats' = MessageStatisticsData
    /\ msg' = NoMessage
    /\ calls' = 0
    /\ cpc' = "idle"
    /\ ci' = 0
    /\ ti' = 0
    /\ yielded' = 0
    /\ requests' = <<>>
    /\ failed' = {}

\* stats_command: collect has returned, the report is sent
StatsSend ==
    /\ kpc = "collecting"
    /\ cpc = "returned"
    /\ output' = "report"
    /\ kpc' = "bot"
    /\ CollectOver
    /\ UNCHANGED <<environment, client, query, now, stats_config, args, invocations, exit_code>>

\* stats_command: collect has raised, the error is sent
StatsExcept ==
    /\ kpc = "collecting"
    /\ cpc = "raised"
    /\ output' = "error"
    /\ kpc' = "bot"
    /\ CollectOver
    /\ UNCHANGED <<environment, client, query, now, stats_config, args, invocations, exit_code>>

BotNext ==
    \/ Tick
    \/ \E start_date, end_date \in DateArgs : StatsCommand(start_date, end_date)
    \/ Walk
    \/ StatsSend
    \/ StatsExcept

BotSpec == BotInit /\ [][BotNext]_vars

(***************************************************************************)
(* Either command.                                                         *)
(***************************************************************************)
CommandInit == CliInit \/ BotInit

CommandNext == CliNext \/ BotNext

CommandSpec == CommandInit /\ [][CommandNext]_vars

(***************************************************************************)
(* The ranking queries of MessageStatisticsData. A ranking is a sequence  *)
(* of <<key, count, percentage>>, the percentage being the fraction        *)
(* <<numerator, denominator>>.                                             *)
(***************************************************************************)
\* how many messages are recorded before the rankings are asked for
MaxRanked == 4
\* the largest limit the rankings are asked with
MaxLimit == 4

\* an item goes before the items it ties with
RECURSIVE SortedByCountUnstable(_)
SortedByCountUnstable(c) ==
    IF c = <<>>
    THEN <<>>
    ELSE LET before == SortedByCountUnstable(SubSeq(c, 1, Len(c) - 1))
             item == c[Len(c)]
             k == Cardinality({i \in 1..Len(before) : before[i][2] > item[2]})
         IN  SubSeq(before, 1, k) \o <<item>> \o SubSeq(before, k + 1, Len(before))

\* sorted(c.items(), key=count, reverse=True): the sort is stable, an item
\* goes after the items before it that count as much or more
RECURSIVE SortedByCount(_)
SortedByCount(c) ==
    IF c = <<>>
    THEN <<>>
    ELSE LET before == SortedByCount(SubSeq(c, 1, Len(c) - 1))
             item == c[Len(c)]
             k == Cardinality({i \in 1..Len(before) : before[i][2] >= item[2]})
         IN  SubSeq(before, 1, k) \o <<item>> \o SubSeq(before, k + 1, Len(before))

\* the limit is not applied
MostCommonAll(c, n) == SortedByCount(c)

\* c.most_common(n), which is heapq.nlargest(n, c.items(), key=count): the
\* first n items of the sorted ones, none for n = 0
MostCommon(c, n) ==
    LET sorted == SortedByCount(c)
    IN  SubSeq(sorted, 1, IF n < Len(sorted) THEN n ELSE Len(sorted))

\* avg_messages_per_day, as the fraction <<numerator, denominator>>
AvgMessagesPerDay(st) ==
    IF st.days_in_period > 0
    THEN <<st.total_messages, st.days_in_period>>
    ELSE <<0, 1>>

\* [(key, count, (count / total) * 100) for key, count in items]
Entries(items, total) ==
    [i \in 1..Len(items) |-> <<items[i][1], items[i][2], <<items[i][2] * 100, total>>>>]

GetTopPosters(st, n) ==
    IF st.total_messages = 0
    THEN <<>>
    ELSE Entries(MostCommon(st.messages_per_author, n), st.total_messages)

GetTopChannels(st, n) ==
    IF st.total_messages = 0
    THEN <<>>
    ELSE Entries(MostCommon(st.messages_per_channel, n), st.total_messages)

GetTopPicturePosters(st, n) ==
    IF st.total_pictures = 0
    THEN <<>>
    ELSE Entries(MostCommon(st.pictures_per_author, n), st.total_pictures)

\* the share of a thread is taken of all messages
GetTopThreadsOfAllMessages(st, n) ==
    IF st.total_thread_messages = 0
    THEN <<>>
    ELSE Entries(MostCommon(st.messages_per_thread, n), st.total_messages)

GetTopThreads(st, n) ==
    IF st.total_thread_messages = 0
    THEN <<>>
    ELSE Entries(MostCommon(st.messages_per_thread, n), st.total_thread_messages)

\* the messages recorded before the rankings are asked for, each by the id
\* of its author, the id of its channel or thread and the number of its
\* attachments: three members and a bot in two threads and a channel, with
\* one image, two images or none
RankedMessages ==
    {m \in Messages :
        <<m.author.id, m.channel.id, Len(m.attachments)>> \in
            {<<1, 11, 1>>, <<3, 12, 3>>, <<5, 3, 1>>, <<3, 3, 0>>, <<1, 12, 0>>, <<5, 11, 0>>,
             <<4, 3, 1>>}}

\* a message is recorded, as long as the rankings were not asked for
RecordRanked(message) ==
    /\ limit = None
    /\ calls < MaxRanked
    /\ message \in RankedMessages
    /\ stats' = ProcessMessage(message, stats, ChannelName(message.channel),
                               IsThread(message.channel))
    /\ msg' = message
    /\ calls' = calls + 1
    /\ UNCHANGED <<client, environment, walker, caller, query>>

\* the four rankings are asked for with limit n
GetTop(n) ==
    /\ limit' = <<n>>
    /\ top' = [posters         |-> GetTopPosters(stats, n),
               channels        |-> GetTopChannels(stats, n),
               threads         |-> GetTopThreads(stats, n),
               picture_posters |-> GetTopPicturePosters(stats, n)]
    /\ UNCHANGED <<accumulator, client, environment, walker, caller>>

RankNext ==
    \/ \E message \in Messages : RecordRanked(message)
    \/ \E n \in 0..MaxLimit : GetTop(n)

RankSpec == Init /\ [][RankNext]_vars

(***************************************************************************)
(* What the accumulator reports for an author, a channel or a thread: the  *)
(* entry under the name the collector records it by.                       *)
(***************************************************************************)
NameOfAuthor(author) == AuthorName([author |-> author])
AuthorMessages(st, author) == CounterGet(st.messages_per_author, NameOfAuthor(author))
AuthorPictures(st, author) == CounterGet(st.pictures_per_author, NameOfAuthor(author))
ChannelMessages(st, channel) == CounterGet(st.messages_per_channel, ChannelName(channel))
ThreadMessages(st, channel) == CounterGet(st.messages_per_thread, ChannelName(channel))

\* this step is one call of _process_message, on msg'
Recorded == calls' = calls + 1

\* the most image attachments one message of the model carries
MaxImages == 2

(***************************************************************************)
(* Claims about the accumulator                                            *)
(***************************************************************************)
\* C1: after any sequence of processed messages, total_messages is the sum
\* of the values of messages_per_channel.
C1_TotalIsChannelSum ==
    stats.total_messages = CounterSum(stats.messages_per_channel)

\* two messages counted, one in a channel and one in a thread
C1_Witness ==
    /\ stats.total_messages = 2
    /\ Len(stats.messages_per_channel) = 2
    /\ stats.total_thread_messages = 1

\* C2: after any sequence of processed messages, total_pictures is the sum
\* of the values of pictures_per_author.
C2_PicturesIsAuthorSum ==
    stats.total_pictures = CounterSum(stats.pictures_per_author)

\* two authors with pictures, one message with one image and one with two
C2_Witness ==
    /\ stats.total_pictures = 3
    /\ Len(stats.pictures_per_author) = 2

\* C3: processing a bot-authored message leaves every counter and every
\* mapping of the accumulator as it was, whatever the accumulator holds and
\* whatever the channel, thread flag and attachments of the message.
C3_BotMessageIsNoOp ==
    [][(Recorded /\ msg'.author.bot = "True") => stats' = stats]_vars

\* a bot message with an image, in a thread, was processed on an accumulator
\* that holds a message already
C3_Witness ==
    /\ calls = 2
    /\ msg.author.bot = "True"
    /\ IsThread(msg.channel)
    /\ Len(ImageAttachments(msg)) > 0
    /\ stats.total_messages = 1

\* C4: processing one non-bot message of author a in channel or thread c
\* with k image attachments adds 1 to total_messages, to the count of a and
\* to the count of c; adds 1 to the thread count of c and to
\* total_thread_messages exactly when c is a thread; adds k to the pictures
\* of a and to total_pictures; and leaves the counts of every other author,
\* channel and thread as they were.
C4_RecordEffect ==
    [][(Recorded /\ msg'.author.bot = "False") =>
        LET a == msg'.author
            c == msg'.channel
            k == Len(ImageAttachments(msg'))
            t == IF IsThread(c) THEN 1 ELSE 0
        IN  /\ stats'.total_messages = stats.total_messages + 1
            /\ AuthorMessages(stats', a) = AuthorMessages(stats, a) + 1
            /\ ChannelMessages(stats', c) = ChannelMessages(stats, c) + 1
            /\ ThreadMessages(stats', c) = ThreadMessages(stats, c) + t
            /\ stats'.total_thread_messages = stats.total_thread_messages + t
            /\ AuthorPictures(stats', a) = AuthorPictures(stats, a) + k
            /\ stats'.total_pictures = stats.total_pictures + k
            /\ \A b \in Authors :
                  (b.id # a.id /\ b.bot = "False") =>
                      /\ AuthorMessages(stats', b) = AuthorMessages(stats, b)
                      /\ AuthorPictures(stats', b) = AuthorPictures(stats, b)
            /\ \A d \in MessageChannels :
                  d.id # c.id =>
                      /\ ChannelMessages(stats', d) = ChannelMessages(stats, d)
                      /\ ThreadMessages(stats', d) = ThreadMessages(stats, d)
    ]_vars

\* C5: counts are grouped by author identity, not by display name: an entry
\* counts the messages and pictures of one identity only, so a message of
\* another identity never changes it, also when both show the same name.
\* The identity of an entry is the one messages_per_author_id holds for it.
C5_GroupedByIdentity ==
    [][(Recorded /\ msg'.author.bot = "False") =>
        \A n \in CounterKeys(stats.messages_per_author) :
            stats.messages_per_author_id[n] # msg'.author.id =>
                /\ CounterGet(stats'.messages_per_author, n) =
                       CounterGet(stats.messages_per_author, n)
                /\ CounterGet(stats'.pictures_per_author, n) =
                       CounterGet(stats.pictures_per_author, n)
    ]_vars

\* C6: a message of a thread t never changes the messages_per_channel count
\* of the parent channel, nor of any channel or thread other than t,
\* whatever the names of t and of the channel.
C6_ThreadsCountedApart ==
    [][(Recorded /\ msg'.author.bot = "False" /\ IsThread(msg'.channel)) =>
        \A d \in MessageChannels :
            d.id # msg'.channel.id =>
                ChannelMessages(stats', d) = ChannelMessages(stats, d)
    ]_vars

\* C7 as claimed: total_pictures never exceeds total_messages.
C7_PicturesAtMostMessages ==
    stats.total_pictures <= stats.total_messages

\* C7, amended: every counted message adds at most MaxImages pictures, the
\* most image attachments one message carries, so total_pictures is at most
\* MaxImages times total_messages (and 0 while no message is counted).
C7_PicturesAtMostImagesOfMessages ==
    stats.total_pictures <= MaxImages * stats.total_messages

\* every counted message carried two images
C7_Witness ==
    /\ stats.total_messages = 2
    /\ stats.total_pictures = 4

(***************************************************************************)
(* Claims about the walk                                                   *)
(***************************************************************************)
\* where collect goes once it is done with the channel or thread it is at:
\* the next thread of the channel, else the next channel, else its return
MovesOn ==
    IF ti < Len(ChannelThreads(TextChannels[ci]))
    THEN cpc' = "thread" /\ ci' = ci /\ ti' = ti + 1
    ELSE IF ci < Len(TextChannels)
         THEN cpc' = "channel" /\ ci' = ci + 1 /\ ti' = 0
         ELSE cpc' = "finish"

\* C8: an error raised while the history of a channel or thread is read
\* does not abort collect: what was counted stays counted, no further
\* message of that channel or thread is processed, collect goes on with the
\* channel's threads and the next channels, and it never ends by raising
\* once a history has failed.
C8_HistoryErrorIsContained ==
    [][/\ (failed' # failed) => (stats' = stats /\ cpc' # "raised" /\ MovesOn)
       /\ Recorded => msg'.channel.id \notin failed
       /\ cpc' = "raised" => failed' = {}
    ]_vars

\* the history of channel 1 failed after one message, which is still
\* counted; its threads and channel 3 were read after it; collect returned
C8_Witness ==
    /\ cpc = "returned"
    /\ failed = {1}
    /\ requests = <<1, 11, 12, 3>>
    /\ msg.channel.id = 1
    /\ stats.total_messages = 1
    /\ ChannelMessages(stats, TextChannels[1]) = 1

\* what holds of the channels and threads the caller may not read: their
\* history is never requested and no message of theirs is processed
UnreadableUntouched ==
    /\ \A id \in ChannelIds : ~readable[id] => id \notin SeqRange(requests)
    /\ calls > 0 => readable[msg.channel.id]
    /\ \A k \in DOMAIN stats.messages_per_channel_id :
           readable[stats.messages_per_channel_id[k]]

\* C9: for a channel or thread without the read-history permission collect
\* requests no history and counts nothing, raises no error, and goes on
\* with what comes next (a channel's threads are passed over with it).
C9_UnreadableIsSkipped ==
    [][/\ UnreadableUntouched'
       /\ (cpc \in {"channel", "thread"} /\ me # None /\ ~readable[Place.id]) =>
              /\ stats' = stats
              /\ requests' = requests
              /\ cpc' # "raised"
              /\ IF cpc = "thread"
                 THEN MovesOn
                 ELSE IF ci < Len(TextChannels)
                      THEN cpc' = "channel" /\ ci' = ci + 1 /\ ti' = 0
                      ELSE cpc' = "finish"
    ]_vars

\* thread 11 and channel 3 may not be read: collect read channel 1 and
\* thread 12 only, counted a message and returned
C9_Witness ==
    /\ cpc = "returned"
    /\ readable = [id \in ChannelIds |-> id \in {1, 12}]
    /\ requests = <<1, 12>>
    /\ stats.total_messages > 0

(***************************************************************************)
(* Claims about fetch_statistics                                           *)
(***************************************************************************)
\* C10: when the timeout elapses fetch_statistics returns None, and in every
\* interleaving of the timeout with on_ready what it returns is None or the
\* accumulator of a collect call that ran to its end, never one that is
\* still being filled or was abandoned.
C10_NoPartialResult ==
    fpc \in {"finally", "returned"} =>
        /\ timed_out => result = None
        /\ result # None => (cpc = "returned" /\ result = <<stats>>)

\* the timeout elapsed while collect was reading a history, with a message
\* counted already: the collection was cancelled and None returned
C10_Witness ==
    /\ fpc = "returned"
    /\ timed_out
    /\ cpc = "cancelled"
    /\ yielded > 0
    /\ stats.total_messages > 0
    /\ result = None

(***************************************************************************)
(* Claims about the stats command of the CLI                               *)
(***************************************************************************)
\* C11: when the target guild id does not resolve to a guild, no collection
\* is run, fetch_statistics returns None, and the CLI prints no report and
\* exits with a status other than 0.
C11_GuildNotFound ==
    ~resolves =>
        /\ cpc = "idle" /\ requests = <<>> /\ calls = 0
        /\ fpc \in {"finally", "returned"} => result = None
        /\ kpc = "exited" => (exit_code = <<1>> /\ output = "nothing")

\* the guild was not found, on_ready set ready before the timeout, and the
\* CLI has exited
C11_Witness ==
    /\ ~resolves
    /\ opc = "done"
    /\ ~timed_out
    /\ fpc = "returned"
    /\ kpc = "exited"
    /\ exit_code = <<1>>

(***************************************************************************)
(* Claims about both stats commands                                        *)
(***************************************************************************)
\* this step is a stats command being given, to the CLI or to the bot
Commanded == (kpc = "cli" /\ kpc' # "cli") \/ invocations' = invocations + 1

\* both dates are given, they parse, and the end is before the start
EndsBeforeStart(given) ==
    /\ given[1] # None /\ Parses(given[1][1])
    /\ given[2] # None /\ Parses(given[2][1])
    /\ Parse(given[2][1]) < Parse(given[1][1])

\* C12: a window whose end is before its start is rejected before the
\* collection starts, by the CLI stats command and by the bot's: collect is
\* not invoked, the client is not started and no history is requested; and
\* nothing ever connects or collects over such a window.
C12_InvalidWindowRejected ==
    [][/\ (cpc' # "idle" \/ opc' # "none") => window'[1] <= window'[2]
       /\ (Commanded /\ EndsBeforeStart(args')) =>
              /\ cpc' = "idle" /\ requests' = <<>> /\ calls' = 0
              /\ opc' = "none" /\ fpc' = "none"
              /\ kpc' \in {"exited", "bot"}
              /\ kpc' = "exited" => exit_code' = <<1>>
              /\ output' # "report"
    ]_vars

\* the bot has rejected its second command, whose end date is before its
\* start date, and has not collected for it
C12_Witness ==
    /\ kpc = "bot"
    /\ invocations = 2
    /\ EndsBeforeStart(args)
    /\ output = "end before start"
    /\ cpc = "idle"
    /\ requests = <<>>

(***************************************************************************)
(* Claims about the rankings                                               *)
(***************************************************************************)
\* where key k was first recorded in counter c
FirstRecorded(c, k) == CHOOSE i \in 1..Len(c) : c[i][1] = k

\* ranking r lists items of counter c, those with more before those with
\* less and, of two with as much, the one first recorded before the other
RankedOf(r, c) ==
    /\ \A i \in 1..Len(r) : r[i][1] \in CounterKeys(c) /\ r[i][2] = CounterGet(c, r[i][1])
    /\ \A i, j \in 1..Len(r) :
          i < j => \/ r[i][2] > r[j][2]
                   \/ r[i][2] = r[j][2] /\ FirstRecorded(c, r[i][1]) < FirstRecorded(c, r[j][1])

\* C13: each ranking query returns its entries sorted by count descending,
\* entries with equal counts in the order their keys were first recorded,
\* for every limit and every sequence of recorded messages.
C13_RankedDescending ==
    limit # None =>
        /\ RankedOf(top.posters, stats.messages_per_author)
        /\ RankedOf(top.channels, stats.messages_per_channel)
        /\ RankedOf(top.threads, stats.messages_per_thread)
        /\ RankedOf(top.picture_posters, stats.pictures_per_author)

\* three authors were recorded, the second of them twice: the ranking of
\* all three has the second first, then the first and the third, who tie
C13_Witness ==
    /\ limit = <<3>>
    /\ Len(stats.messages_per_author) = 3
    /\ stats.messages_per_author[2][2] = 2
    /\ Len(top.posters) = 3
    /\ top.posters[1][1] = stats.messages_per_author[2][1]
    /\ top.posters[2][1] = stats.messages_per_author[1][1]
    /\ top.posters[3][1] = stats.messages_per_author[3][1]

\* the number of distinct keys of counter c
Distinct(c) == Cardinality(CounterKeys(c))

\* ranking r of counter c, asked with limit n, has min(n, distinct keys)
\* entries
SizedOf(r, c, n) == Len(r) = IF n < Distinct(c) THEN n ELSE Distinct(c)

\* C14: for every n >= 0 each ranking query returns exactly min(n, number
\* of distinct keys) entries: none for n = 0, all of them for n at or over
\* the number of keys, and none when its denominator is 0, as on an empty
\* accumulator.
C14_RankingSize ==
    limit # None =>
        /\ SizedOf(top.posters, stats.messages_per_author, limit[1])
        /\ SizedOf(top.channels, stats.messages_per_channel, limit[1])
        /\ SizedOf(top.threads, stats.messages_per_thread, limit[1])
        /\ SizedOf(top.picture_posters, stats.pictures_per_author, limit[1])
        /\ stats.total_messages = 0 => top.posters = <<>> /\ top.channels = <<>>
        /\ stats.total_thread_messages = 0 => top.threads = <<>>
        /\ stats.total_pictures = 0 => top.picture_posters = <<>>

\* two authors posted in a channel, with pictures, and the rankings were
\* asked with limit 1: one poster, one channel, one picture poster, and no
\* thread, the denominator of the threads being 0
C14_Witness ==
    /\ limit = <<1>>
    /\ Distinct(stats.messages_per_author) = 2
    /\ Len(top.posters) = 1
    /\ Len(top.channels) = 1
    /\ Len(top.picture_posters) = 1
    /\ stats.total_thread_messages = 0
    /\ top.threads = <<>>

RECURSIVE SumOf(_, _)
\* the sum of part p of the entries of ranking r
SumOf(r, p) == IF r = <<>> THEN 0 ELSE r[1][p] + SumOf(Tail(r), p)

RECURSIVE Numerators(_)
\* the sum of the numerators of the percentages of ranking r
Numerators(r) == IF r = <<>> THEN 0 ELSE r[1][3][1] + Numerators(Tail(r))

\* the percentages of ranking r, which lists every key of counter c, are
\* fractions of total and sum to 100
FullOf(r, c, total) ==
    (Len(r) = Len(c) /\ total > 0) =>
        /\ SumOf(r, 2) = total
        /\ \A i \in 1..Len(r) : r[i][3][2] = total
        /\ Numerators(r) = 100 * total

\* C15: the counts of all keys of a ranking sum to the denominator of its
\* percentages (total_messages for authors and channels,
\* total_thread_messages for threads, total_pictures for picture authors),
\* so the percentages of a full ranking sum to 100 when the denominator is
\* over 0.
C15_CountsSumToDenominator ==
    /\ CounterSum(stats.messages_per_author) = stats.total_messages
    /\ CounterSum(stats.messages_per_channel) = stats.total_messages
    /\ CounterSum(stats.messages_per_thread) = stats.total_thread_messages
    /\ CounterSum(stats.pictures_per_author) = stats.total_pictures
    /\ limit # None =>
          /\ FullOf(top.posters, stats.messages_per_author, stats.total_messages)
          /\ FullOf(top.channels, stats.messages_per_channel, stats.total_messages)
          /\ FullOf(top.threads, stats.messages_per_thread, stats.total_thread_messages)
          /\ FullOf(top.picture_posters, stats.pictures_per_author, stats.total_pictures)

\* four messages, two of them in two threads, some with pictures: the
\* rankings asked with limit 3 list every key
C15_Witness ==
    /\ limit = <<3>>
    /\ stats.total_messages = 4
    /\ stats.total_thread_messages = 2
    /\ stats.total_pictures > 0
    /\ Len(top.posters) = 3
    /\ Len(top.threads) = 2
    /\ Len(top.threads) = Len(stats.messages_per_thread)
    /\ Len(top.picture_posters) = Len(stats.pictures_per_author)

(***************************************************************************)
(* Claims about the period                                                 *)
(***************************************************************************)
\* the whole days from start to end
WholeDays(start, end) ==
    CHOOSE d \in 0..(end - start) :
        d * TicksPerDay <= end - start /\ end - start < (d + 1) * TicksPerDay

\* fractions p and q are the same number
SameFraction(p, q) == p[1] * q[2] = q[1] * p[2]

\* C16: once collect was called over a window, days_in_period is the whole
\* number of days between its start and its end, and 1 if that is 0;
\* avg_messages_per_day is total_messages / days_in_period; a window with
\* start = end gives 1 day and an average of total_messages; no messages
\* give an average of 0.
C16_DaysAndAverage ==
    cpc # "idle" =>
        LET days == WholeDays(window[1], window[2])
            avg == AvgMessagesPerDay(stats)
        IN  /\ stats.days_in_period = IF days < 1 THEN 1 ELSE days
            /\ SameFraction(avg, <<stats.total_messages, stats.days_in_period>>)
            /\ window[1] = window[2] =>
                  /\ stats.days_in_period = 1
                  /\ SameFraction(avg, <<stats.total_messages, 1>>)
            /\ stats.total_messages = 0 => avg[1] = 0

\* collect has returned over a window of less than a day, with messages
\* counted: the period is 1 day
C16_Witness ==
    /\ cpc = "returned"
    /\ window[2] - window[1] < TicksPerDay
    /\ stats.days_in_period = 1
    /\ stats.total_messages > 0
    /\ AvgMessagesPerDay(stats) = <<stats.total_messages, 1>>

(***************************************************************************)
(* Claims about the stats command of the bot                               *)
(***************************************************************************)
\* C17: in any sequence of stats commands sent to a running bot, a command
\* without dates collects over the last four weeks, and a command with a
\* start date only collects from that date until now, whatever dates the
\* commands before it were given.
C17_DatesOfThisCommandOnly ==
    [][invocations' = invocations + 1 =>
        /\ args' = <<None, None>> =>
               (kpc' = "collecting" /\ window' = <<now - FourWeeks, now>>)
        /\ (args'[1] # None /\ Parses(args'[1][1]) /\ args'[2] = None) =>
               (kpc' = "collecting" /\ window' = <<Parse(args'[1][1]), now>>)
    ]_vars

(***************************************************************************)
(* Claims about the order of the walk                                      *)
(***************************************************************************)
\* how many times the history of channel or thread id was requested
Requested(id) == Cardinality({i \in 1..Len(requests) : requests[i] = id})

\* where in requests the history of id was requested
RequestOf(id) == CHOOSE i \in 1..Len(requests) : requests[i] = id

\* C18: no history is requested twice, and when collect returns every text
\* channel with the read-history permission and every permitted thread of
\* such a channel has had its history requested once, the channel before
\* its threads: none that is permitted is left out.
C18_EachAttemptedOnce ==
    /\ \A id \in ChannelIds : Requested(id) <= 1
    /\ cpc = "returned" =>
          \A i \in 1..Len(TextChannels) :
              LET channel == TextChannels[i]
              IN  readable[channel.id] =>
                      /\ Requested(channel.id) = 1
                      /\ \A j \in 1..Len(ChannelThreads(channel)) :
                            LET thread == ChannelThreads(channel)[j]
                            IN  readable[thread.id] =>
                                    /\ Requested(thread.id) = 1
                                    /\ RequestOf(channel.id) < RequestOf(thread.id)

\* every channel and thread may be read, the history of a thread failed:
\* collect has returned after requesting each history once, each channel
\* before its threads
C18_Witness ==
    /\ cpc = "returned"
    /\ \A id \in ChannelIds : readable[id]
    /\ requests = <<1, 11, 12, 3>>
    /\ failed = {11}
    /\ stats.total_messages > 0

(***************************************************************************)
(* Claims about on_ready                                                   *)
(***************************************************************************)
\* C19: once on_ready is invoked, ready is eventually set, whether the
\* guild is not found, collect returns or collect raises; and when ready is
\* set, client.data is not None only if the guild was found and collect has
\* returned, without raising.
C19_ReadyIsSet ==
    /\ (opc \in {"collecting", "done"}) ~> ready
    /\ [][(~ready /\ ready') =>
             (data' # None => (resolves /\ cpc = "returned" /\ data' = <<stats>>))]_vars
    /\ [](opc = "done" => ready)

\* collect has raised: on_ready is over, ready is set and there is no data
C19_Witness ==
    /\ opc = "done"
    /\ cpc = "raised"
    /\ ready
    /\ data = None
    /\ ~timed_out

====
